---- MODULE Spec2Model ----
(***************************************************************************)
(* State-machine model of the agent notebooks:                             *)
(*   - memory_enhanced_conversational_agent.ipynb: chat_store,             *)
(*     long_term_memory, get_chat_history, update_long_term_memory,        *)
(*     get_long_term_memory, chat;                                         *)
(*   - multi_agent_collaboration_system.ipynb: the five step functions     *)
(*     and HistoryDataCollaborationSystem.solve;                           *)
(*   - the self-improving agent notebook (unnamed/part_000):               *)
(*     ChatMessageHistory, reflect, learn, SelfImprovingAgent.             *)
(* Texts are TLA+ strings, so len() is Len and f-strings are \o.           *)
(* The language-model call is the environment: it returns a text or        *)
(* raises, chosen nondeterministically.                                    *)
(***************************************************************************)
EXTENDS Integers, Sequences, FiniteSets, TLC

VARIABLES
    chat_store,        \* dict session_id -> list of turns (short-term history)
    long_term_memory,  \* dict session_id -> list of [user turn, assistant turn] pairs
    calls,             \* instrumentation: per session, the (input, output) arguments of
                       \* every update_long_term_memory invocation so far, in call order
    last,              \* instrumentation: the last memory operation, what the model
                       \* call did in it and what the operation gave its caller
    pc,                \* solve: "idle", "check" (top of the loop), "step" (step_func
                       \* in flight) or "done" (returned)
    now,               \* the wall clock that time.time() reads
    start_time,        \* solve: start_time
    timeout,           \* solve: the timeout argument
    task,              \* solve: the task argument
    context,           \* solve: the shared context list
    idx,               \* solve: position in steps, 1-based
    step_log,          \* instrumentation: the step functions invoked in the current
                       \* solve invocation, in order, each with what its model call did
    outcome,           \* solve: what the invocation gave its caller
    process_call,      \* instrumentation: the last direct call of Agent.process, its
                       \* arguments, the message list it sent and the context and
                       \* the agent as they were afterwards
    end_time,          \* instrumentation: the clock reading at which the current
                       \* solve invocation returned
    prior_context,     \* instrumentation: the context list as the solve invocation
                       \* before the current one left it
    self_store,        \* SelfImprovingAgent.store: dict session_id -> the messages
                       \* list of that session's ChatMessageHistory
    self_insights,     \* SelfImprovingAgent.insights
    added,             \* instrumentation: per session, the (role, content) arguments
                       \* of every add_message invocation so far, in call order
    sent,              \* instrumentation: the message lists the last agent operation
                       \* sent to the model, in order
    threads            \* the chat calls in flight when chat runs on several
                       \* threads: per thread, its position in chat and its locals

memVars == <<chat_store, long_term_memory, calls, last>>
solveVars == <<pc, now, start_time, timeout, task, context, idx, step_log, outcome,
               end_time, prior_context, process_call>>
agentVars == <<self_store, self_insights, added, sent>>
vars == <<chat_store, long_term_memory, calls, last,
          pc, now, start_time, timeout, task, context, idx, step_log, outcome,
          end_time, prior_context, process_call, self_store, self_insights, added, sent, threads>>

----------------------------------------------------------------------------
(* Bounds of the model and the inputs it draws from.                       *)

\* update_long_term_memory invocations explored in all (direct calls).
MaxCalls == 7

\* successful chat invocations explored in all.
MaxChats == 2

\* largest clock reading explored.
MaxClock == 4

SessionIds == {"user_123", "user_456"}

\* Direct update_long_term_memory inputs: lengths 20 and 21, the two sides
\* of the admission threshold.
LtmInputs == {"exactly twenty chars", "twenty-one characters"}

\* chat inputs: lengths 2, 20, 21 and 24.
ChatInputs == {"Hi", "exactly twenty chars", "twenty-one characters",
               "Hello! My name is Alice."}

\* Texts the model may return, and messages of the errors it may raise.
Responses == {"r1", "r2"}
Errors == {"rate limit", "connection error"}

----------------------------------------------------------------------------
(* Python dicts and lists.                                                 *)

EmptyDict == [k \in {} |-> <<>>]

\* d[k] = v on a dict that keeps one value for all its keys.
PutAll(d, k, v) == [x \in (DOMAIN d) \cup {k} |-> v]

\* d[k] = v
Put(d, k, v) == [x \in (DOMAIN d) \cup {k} |-> IF x = k THEN v ELSE d[x]]

\* d.get(k, default)
Get(d, k, default) == IF k \in DOMAIN d THEN d[k] ELSE default

\* seq[-n:] for n > 0
LastN(seq, n) ==
    IF Len(seq) <= n THEN seq ELSE SubSeq(seq, Len(seq) - n + 1, Len(seq))

\* seq[:n]
FirstN(seq, n) == IF Len(seq) <= n THEN seq ELSE SubSeq(seq, 1, n)

Turn(role, content) == [role |-> role, content |-> content]

----------------------------------------------------------------------------
(* Memory stores: memory_enhanced_conversational_agent.ipynb               *)

\* The literal of "if len(input_text) > 20".
Threshold == 20

\* The literal of "if len(...) > 5" and of "[-5:]".
Cap == 5

\* get_chat_history that assigns a new list on every call.
get_chat_history_resets(store, session_id) == Put(store, session_id, <<>>)

\* get_chat_history: the store after the call; the history returned is
\* get_chat_history(store, session_id)[session_id].
get_chat_history(store, session_id) ==
    IF session_id \notin DOMAIN store
    THEN Put(store, session_id, <<>>)
    ELSE store

AdmitAtThreshold(input_text) == Len(input_text) >= Threshold

\* "if len(input_text) > 20"
Admit(input_text) == Len(input_text) > Threshold

NoTrim(mem) == mem

TrimKeepsOldest(mem) == IF Len(mem) > Cap THEN FirstN(mem, Cap) ELSE mem

\* "if len(long_term_memory[session_id]) > 5:
\*      long_term_memory[session_id] = long_term_memory[session_id][-5:]"
Trim(mem) == IF Len(mem) > Cap THEN LastN(mem, Cap) ELSE mem

\* The pair update_long_term_memory builds.
Message(input_text, output_text) ==
    <<Turn("user", input_text), Turn("assistant", output_text)>>

\* update_long_term_memory with the trim ahead of the append.
update_long_term_memory_trims_first(ltm, session_id, input_text, output_text) ==
    LET m0 == IF session_id \notin DOMAIN ltm
              THEN Put(ltm, session_id, <<>>)
              ELSE ltm
        m1 == Put(m0, session_id, Trim(m0[session_id]))
    IN  IF Admit(input_text)
        THEN Put(m1, session_id,
                 Append(m1[session_id], Message(input_text, output_text)))
        ELSE m1

\* update_long_term_memory: the long_term_memory dict after the call.
update_long_term_memory(ltm, session_id, input_text, output_text) ==
    LET m0 == IF session_id \notin DOMAIN ltm
              THEN Put(ltm, session_id, <<>>)
              ELSE ltm
        m1 == IF Admit(input_text)
              THEN Put(m0, session_id,
                       Append(m0[session_id], Message(input_text, output_text)))
              ELSE m0
    IN  Put(m1, session_id, Trim(m1[session_id]))

\* str() of a str inside a list or dict (texts of the model hold no quote
\* and no backslash).
Repr(text) == "'" \o text \o "'"

\* str(turn) for a dict {"role": ..., "content": ...}
StrTurn(t) ==
    "{'role': " \o Repr(t.role) \o ", 'content': " \o Repr(t.content) \o "}"

\* str(item) for a long-term pair, a list of two dicts
StrItem(item) == "[" \o StrTurn(item[1]) \o ", " \o StrTurn(item[2]) \o "]"

\* sep.join(str(item) for item in items)
RECURSIVE JoinItems(_, _)
JoinItems(sep, items) ==
    IF items = <<>> THEN ""
    ELSE IF Len(items) = 1 THEN StrItem(items[1])
    ELSE StrItem(items[1]) \o sep \o JoinItems(sep, Tail(items))

\* get_long_term_memory: the text returned; neither store is touched.
get_long_term_memory(ltm, session_id) ==
    JoinItems(". ", Get(ltm, session_id, <<>>))

\* The "for message in chat_history" loop of chat.
RECURSIVE HistoryLines(_)
HistoryLines(chat_history) ==
    IF chat_history = <<>> THEN ""
    ELSE chat_history[1].role \o ": " \o chat_history[1].content \o "\n"
         \o HistoryLines(Tail(chat_history))

\* The prompt of chat with the turn history ahead of the long-term memory.
BuildPromptHistoryFirst(long_term_mem, chat_history, input_text) ==
    "You are a helpful AI assistant. Use the information from long-term memory if relevant.\n"
    \o HistoryLines(chat_history)
    \o (IF long_term_mem # ""
        THEN "Long-term memory: " \o long_term_mem \o "\n"
        ELSE "No long-term memory yet.\n")
    \o "user: " \o input_text \o "\n"

\* The prompt chat builds.
BuildPrompt(long_term_mem, chat_history, input_text) ==
    "You are a helpful AI assistant. Use the information from long-term memory if relevant.\n"
    \o (IF long_term_mem # ""
        THEN "Long-term memory: " \o long_term_mem \o "\n"
        ELSE "No long-term memory yet.\n")
    \o HistoryLines(chat_history)
    \o "user: " \o input_text \o "\n"

\* What a model call does: returns a text or raises.
BoundaryOk(r) == [kind |-> "ok", val |-> r]
BoundaryRaise(e) == [kind |-> "raise", val |-> e]
BoundaryNone == [kind |-> "none", val |-> ""]
Boundary == {BoundaryOk(r) : r \in Responses} \cup {BoundaryRaise(e) : e \in Errors}

\* What an operation gives its caller: a value or an exception.
Return(v) == [kind |-> "return", val |-> v]
Raise(e) == [kind |-> "raise", val |-> e]

\* chat with the user turn recorded before the model is called.
chat_records_input_first(store, ltm, session_id, input_text, boundary) ==
    LET long_term_mem == get_long_term_memory(ltm, session_id)
        store1 == get_chat_history(store, session_id)
        chat_history == store1[session_id]
        prompt == BuildPrompt(long_term_mem, chat_history, input_text)
        store2 == Put(store1, session_id,
                      Append(chat_history, Turn("user", input_text)))
    IN  IF boundary.kind = "raise"
        THEN [chat_store |-> store2, long_term_memory |-> ltm,
              prompt |-> prompt, outcome |-> Raise(boundary.val)]
        ELSE [chat_store |-> Put(store2, session_id,
                                 Append(store2[session_id],
                                        Turn("assitant", boundary.val))),
              long_term_memory |->
                  update_long_term_memory(ltm, session_id, input_text, boundary.val),
              prompt |-> prompt, outcome |-> Return(boundary.val)]

\* chat with the long-term memory text of the prompt taken from the store
\* as the call leaves it.
chat_renders_after_update(store, ltm, session_id, input_text, boundary) ==
    LET store1 == get_chat_history(store, session_id)
        chat_history == store1[session_id]
        ltm1 == IF boundary.kind = "raise" THEN ltm
                ELSE update_long_term_memory(ltm, session_id, input_text, boundary.val)
        prompt == BuildPrompt(get_long_term_memory(ltm1, session_id),
                              chat_history, input_text)
    IN  IF boundary.kind = "raise"
        THEN [chat_store |-> store1, long_term_memory |-> ltm,
              prompt |-> prompt, outcome |-> Raise(boundary.val)]
        ELSE [chat_store |-> Put(store1, session_id,
                                 chat_history \o <<Turn("user", input_text),
                                                   Turn("assitant", boundary.val)>>),
              long_term_memory |-> ltm1,
              prompt |-> prompt, outcome |-> Return(boundary.val)]

\* chat with the two appends in the other order.
chat_records_response_first(store, ltm, session_id, input_text, boundary) ==
    LET long_term_mem == get_long_term_memory(ltm, session_id)
        store1 == get_chat_history(store, session_id)
        chat_history == store1[session_id]
        prompt == BuildPrompt(long_term_mem, chat_history, input_text)
    IN  IF boundary.kind = "raise"
        THEN [chat_store |-> store1, long_term_memory |-> ltm,
              prompt |-> prompt, outcome |-> Raise(boundary.val)]
        ELSE [chat_store |-> Put(store1, session_id,
                                 chat_history \o <<Turn("assitant", boundary.val),
                                                   Turn("user", input_text)>>),
              long_term_memory |->
                  update_long_term_memory(ltm, session_id, input_text, boundary.val),
              prompt |-> prompt, outcome |-> Return(boundary.val)]

\* chat: the two stores after the call, the prompt sent to the model and
\* what the caller gets. generate_response has no try/except, so an
\* exception of the model call leaves chat at that line.
chat(store, ltm, session_id, input_text, boundary) ==
    LET long_term_mem == get_long_term_memory(ltm, session_id)
        store1 == get_chat_history(store, session_id)
        chat_history == store1[session_id]
        prompt == BuildPrompt(long_term_mem, chat_history, input_text)
    IN  IF boundary.kind = "raise"
        THEN [chat_store |-> store1, long_term_memory |-> ltm,
              prompt |-> prompt, outcome |-> Raise(boundary.val)]
        ELSE [chat_store |-> Put(store1, session_id,
                                 chat_history \o <<Turn("user", input_text),
                                                   Turn("assitant", boundary.val)>>),
              long_term_memory |->
                  update_long_term_memory(ltm, session_id, input_text, boundary.val),
              prompt |-> prompt, outcome |-> Return(boundary.val)]

\* A (input, output) argument pair of update_long_term_memory.
Call(input_text, output_text) == [input |-> input_text, output |-> output_text]

NoOp == [op |-> "none", sid |-> "", input |-> "", output |-> "",
         prompt |-> "", boundary |-> BoundaryNone, outcome |-> Return("")]

RECURSIVE SumLen(_, _)
SumLen(f, S) ==
    IF S = {} THEN 0
    ELSE LET k == CHOOSE x \in S : TRUE
         IN  Len(f[k]) + SumLen(f, S \ {k})

\* Number of update_long_term_memory invocations so far.
TotalCalls == SumLen(calls, SessionIds)

\* Number of turns in all histories.
TotalTurns == SumLen(chat_store, DOMAIN chat_store)

\* The effect of a direct call
\* update_long_term_memory(session_id, input_text, output_text).
UpdateCall(session_id, input_text, output_text) ==
    /\ long_term_memory' =
           update_long_term_memory(long_term_memory, session_id, input_text, output_text)
    /\ calls' = [calls EXCEPT ![session_id] = Append(@, Call(input_text, output_text))]
    /\ last' = [NoOp EXCEPT !.op = "update_long_term_memory", !.sid = session_id,
                            !.input = input_text, !.output = output_text]
    /\ UNCHANGED chat_store
    /\ UNCHANGED solveVars
    /\ UNCHANGED <<agentVars, threads>>

\* A direct call update_long_term_memory(session_id, input_text, output_text).
UpdateLongTermMemory(session_id, input_text, output_text) ==
    /\ TotalCalls < MaxCalls
    /\ UpdateCall(session_id, input_text, output_text)

\* A direct call get_chat_history(session_id).
GetChatHistory(session_id) ==
    /\ chat_store' = get_chat_history(chat_store, session_id)
    /\ last' = [NoOp EXCEPT !.op = "get_chat_history", !.sid = session_id]
    /\ UNCHANGED <<long_term_memory, calls>>
    /\ UNCHANGED solveVars
    /\ UNCHANGED <<agentVars, threads>>

\* A get_long_term_memory that creates the session's entry on a miss, the
\* way get_chat_history does.
GetLongTermMemoryCreatesKey(session_id) ==
    /\ last' = [NoOp EXCEPT !.op = "get_long_term_memory", !.sid = session_id,
                            !.outcome = Return(get_long_term_memory(long_term_memory,
                                                                    session_id))]
    /\ long_term_memory' = IF session_id \notin DOMAIN long_term_memory
                           THEN Put(long_term_memory, session_id, <<>>)
                           ELSE long_term_memory
    /\ UNCHANGED <<chat_store, calls>>
    /\ UNCHANGED solveVars
    /\ UNCHANGED <<agentVars, threads>>

\* A direct call get_long_term_memory(session_id).
GetLongTermMemory(session_id) ==
    /\ last' = [NoOp EXCEPT !.op = "get_long_term_memory", !.sid = session_id,
                            !.outcome = Return(get_long_term_memory(long_term_memory,
                                                                    session_id))]
    /\ UNCHANGED <<chat_store, long_term_memory, calls>>
    /\ UNCHANGED solveVars
    /\ UNCHANGED <<agentVars, threads>>

\* The effect of a call chat(input_text, session_id) in which the model call
\* does `boundary`.
ChatCall(session_id, input_text, boundary) ==
    /\ LET res == chat(chat_store, long_term_memory, session_id, input_text, boundary)
       IN  /\ chat_store' = res.chat_store
           /\ long_term_memory' = res.long_term_memory
           /\ calls' = IF boundary.kind = "ok"
                       THEN [calls EXCEPT ![session_id] =
                                 Append(@, Call(input_text, boundary.val))]
                       ELSE calls
           /\ last' = [op |-> "chat", sid |-> session_id, input |-> input_text,
                       output |-> "", prompt |-> res.prompt,
                       boundary |-> boundary, outcome |-> res.outcome]
    /\ UNCHANGED solveVars
    /\ UNCHANGED <<agentVars, threads>>

\* A call chat(input_text, session_id) in which the model call does `boundary`.
Chat(session_id, input_text, boundary) ==
    /\ TotalTurns < 2 * MaxChats
    /\ ChatCall(session_id, input_text, boundary)

----------------------------------------------------------------------------
(* Collaboration pipeline: multi_agent_collaboration_system.ipynb          *)

\* The default of solve's timeout parameter, in seconds.
DefaultTimeout == 300

Timeouts == {0, 1, DefaultTimeout}

Tasks == {"How did urbanization rates compare?"}

\* self.history_agent and self.data_agent of HistoryDataCollaborationSystem
history_agent ==
    [name |-> "Clio", role |-> "History Research Specialist",
     skills |-> <<"deep knowledge of historical events",
                  "understanding of historical contexts",
                  "identifying historical trends">>]
data_agent ==
    [name |-> "Data", role |-> "Data Analysis Expert",
     skills |-> <<"interpreting numerical data", "statistical analysis",
                  "data visualization description">>]

\* Longest context list handed to a direct Agent.process call.
MaxContextLen == 2

\* The context argument of Agent.process: None (the default) or a list.
NoContext == [given |-> FALSE, list |-> <<>>]
GivenContext(l) == [given |-> TRUE, list |-> l]

\* "if context:" is false for None and for the empty list.
Truthy(c) == c.given /\ c.list # <<>>

\* ', '.join(skills)
RECURSIVE JoinSkills(_)
JoinSkills(skills) ==
    IF skills = <<>> THEN ""
    ELSE IF Len(skills) = 1 THEN skills[1]
    ELSE skills[1] \o ", " \o JoinSkills(Tail(skills))

\* The system message of Agent.process.
SystemMessage(agent) ==
    Turn("system",
         "You are " \o agent.name \o ", a " \o agent.role
         \o ". Your skills include: " \o JoinSkills(agent.skills)
         \o ". Respond to the task based on your role and skills.")

\* Agent.process building its message list on the caller's context list.
process_builds_on_context(agent, t, ctx, boundary) ==
    LET messages == (IF Truthy(ctx)
                     THEN <<SystemMessage(agent)>> \o ctx.list
                     ELSE <<SystemMessage(agent)>>)
                    \o <<Turn("user", "Task: " \o t)>>
    IN  [messages |-> messages,
         context |-> IF ctx.given
                     THEN GivenContext(ctx.list \o <<Turn("user", "Task: " \o t)>>)
                     ELSE ctx,
         agent |-> agent,
         outcome |-> IF boundary.kind = "raise"
                     THEN Raise(boundary.val) ELSE Return(boundary.val)]

\* Agent.process: the message list sent, the context argument and the
\* agent afterwards, and what the caller gets. messages.extend copies the
\* entries of context into the new list.
process(agent, t, ctx, boundary) ==
    LET m0 == <<SystemMessage(agent)>>
        m1 == IF Truthy(ctx) THEN m0 \o ctx.list ELSE m0
        messages == Append(m1, Turn("user", "Task: " \o t))
    IN  [messages |-> messages, context |-> ctx, agent |-> agent,
         outcome |-> IF boundary.kind = "raise"
                     THEN Raise(boundary.val) ELSE Return(boundary.val)]

NoProcessCall ==
    [called |-> FALSE, agent |-> history_agent, task |-> "", context |-> NoContext,
     messages |-> <<>>, context_after |-> NoContext, agent_after |-> history_agent,
     outcome |-> [kind |-> "none", val |-> ""]]

\* Tasks and context entries of direct Agent.process calls.
ProcessTasks ==
    Tasks \cup {"Provide relevant historical context and information for the following task: How did urbanization rates compare?"}
ContextEntries ==
    {Turn("assistant", "History Agent: r1"), Turn("assistant", "Data Agent: r2")}
Contexts ==
    {NoContext}
    \cup {GivenContext(l) : l \in UNION {[1..n -> ContextEntries] : n \in 0..MaxContextLen}}

\* A direct call agent.process(t, ctx), or agent.process(t) when ctx is
\* NoContext.
Process(agent, t, ctx, boundary) ==
    /\ LET res == process(agent, t, ctx, boundary)
       IN  process_call' = [called |-> TRUE, agent |-> agent, task |-> t,
                            context |-> ctx, messages |-> res.messages,
                            context_after |-> res.context, agent_after |-> res.agent,
                            outcome |-> res.outcome]
    /\ UNCHANGED <<pc, now, start_time, timeout, task, context, idx, step_log,
                   outcome, end_time, prior_context>>
    /\ UNCHANGED memVars
    /\ UNCHANGED <<agentVars, threads>>

\* What a step function gives solve: a list (the context), a str, or an
\* exception.
StepList(ctx) == [kind |-> "list", ctx |-> ctx, val |-> ""]
StepStr(v) == [kind |-> "str", ctx |-> <<>>, val |-> v]
StepRaise(e) == [kind |-> "raise", ctx |-> <<>>, val |-> e]

\* The message of the IndexError of context[-1] on an empty list.
IndexErrorMsg == "list index out of range"

\* A first step that hands the context back without its own entry.
research_appends_nothing(agent, t, ctx, boundary) ==
    IF boundary.kind = "raise" THEN StepRaise(boundary.val)
    ELSE StepList(ctx)

\* research_historical_context: process() is called without the context.
research_historical_context(agent, t, ctx, boundary) ==
    IF boundary.kind = "raise" THEN StepRaise(boundary.val)
    ELSE StepList(Append(ctx, Turn("assistant", "History Agent: " \o boundary.val)))

\* identify_data_needs: reads context[-1] before the model call.
identify_data_needs(agent, t, ctx, boundary) ==
    IF ctx = <<>> THEN StepRaise(IndexErrorMsg)
    ELSE IF boundary.kind = "raise" THEN StepRaise(boundary.val)
    ELSE StepList(Append(ctx, Turn("assistant", "Data Agent: " \o boundary.val)))

\* provide_historical_data: reads context[-1] before the model call.
provide_historical_data(agent, t, ctx, boundary) ==
    IF ctx = <<>> THEN StepRaise(IndexErrorMsg)
    ELSE IF boundary.kind = "raise" THEN StepRaise(boundary.val)
    ELSE StepList(Append(ctx, Turn("assistant", "History Agent: " \o boundary.val)))

\* analyze_data: reads context[-1] before the model call.
analyze_data(agent, t, ctx, boundary) ==
    IF ctx = <<>> THEN StepRaise(IndexErrorMsg)
    ELSE IF boundary.kind = "raise" THEN StepRaise(boundary.val)
    ELSE StepList(Append(ctx, Turn("assistant", "Data Agent: " \o boundary.val)))

\* A synthesis step that appends its answer and hands the context back.
synthesize_appends_to_context(agent, t, ctx, boundary) ==
    IF boundary.kind = "raise" THEN StepRaise(boundary.val)
    ELSE StepList(Append(ctx, Turn("assistant", "History Agent: " \o boundary.val)))

\* synthesize_final_answer: returns the model's text, a str; the context
\* is passed to process() and not appended to.
synthesize_final_answer(agent, t, ctx, boundary) ==
    IF boundary.kind = "raise" THEN StepRaise(boundary.val)
    ELSE StepStr(boundary.val)

\* steps with the third and the fourth entry exchanged.
StepsDataFirst ==
    <<[func |-> "research_historical_context", agent |-> history_agent],
      [func |-> "identify_data_needs", agent |-> data_agent],
      [func |-> "analyze_data", agent |-> data_agent],
      [func |-> "provide_historical_data", agent |-> history_agent],
      [func |-> "synthesize_final_answer", agent |-> history_agent]>>

\* The steps list of solve.
Steps ==
    <<[func |-> "research_historical_context", agent |-> history_agent],
      [func |-> "identify_data_needs", agent |-> data_agent],
      [func |-> "provide_historical_data", agent |-> history_agent],
      [func |-> "analyze_data", agent |-> data_agent],
      [func |-> "synthesize_final_answer", agent |-> history_agent]>>

\* step_func(agent, task, context) for the step at position i.
StepFunc(i, t, ctx, boundary) ==
    LET agent == Steps[i].agent
        func == Steps[i].func
    IN  CASE func = "research_historical_context" ->
                 research_historical_context(agent, t, ctx, boundary)
          [] func = "identify_data_needs" ->
                 identify_data_needs(agent, t, ctx, boundary)
          [] func = "provide_historical_data" ->
                 provide_historical_data(agent, t, ctx, boundary)
          [] func = "analyze_data" ->
                 analyze_data(agent, t, ctx, boundary)
          [] func = "synthesize_final_answer" ->
                 synthesize_final_answer(agent, t, ctx, boundary)

TimeoutMsg == "Operation timed out. The process took too long to complete."

ErrorMsg(e) == "Error during collaboration: " \o e

NoOutcome == [kind |-> "none", val |-> ""]

ExceededNever(clock, start, tmo) == FALSE

ExceededAtOrAfter(clock, start, tmo) == clock - start >= tmo

\* "if time.time() - start_time > timeout"
Exceeded(clock, start, tmo) == clock - start > tmo

\* An except clause that lets the exception go.
Propagate(e) == Raise(e)

\* "except Exception as e: return f"Error during collaboration: {str(e)}""
OnException(e) == Return(ErrorMsg(e))

\* A loop body that carries on with the next step after an exception.
LoopBodyContinues(i, ctx, res) ==
    IF res.kind = "str"
    THEN [pc |-> "done", idx |-> i, context |-> ctx, outcome |-> Return(res.val)]
    ELSE LET ctx1 == IF res.kind = "raise" THEN ctx ELSE res.ctx
         IN  IF i < Len(Steps)
             THEN [pc |-> "check", idx |-> i + 1, context |-> ctx1, outcome |-> NoOutcome]
             ELSE [pc |-> "done", idx |-> i, context |-> ctx1,
                   outcome |-> IF ctx1 = <<>> THEN Raise(IndexErrorMsg)
                               ELSE Return(ctx1[Len(ctx1)].content)]

\* A loop body that runs the same step again after an exception.
LoopBodyRetries(i, ctx, res) ==
    IF res.kind = "raise"
    THEN [pc |-> "check", idx |-> i, context |-> ctx, outcome |-> NoOutcome]
    ELSE IF res.kind = "str"
    THEN [pc |-> "done", idx |-> i, context |-> ctx, outcome |-> Return(res.val)]
    ELSE IF i < Len(Steps)
    THEN [pc |-> "check", idx |-> i + 1, context |-> res.ctx, outcome |-> NoOutcome]
    ELSE [pc |-> "done", idx |-> i, context |-> res.ctx,
          outcome |-> IF res.ctx = <<>> THEN Raise(IndexErrorMsg)
                      ELSE Return(res.ctx[Len(res.ctx)].content)]

\* A loop body that tests the timeout once more when step_func is back.
LoopBodyChecksAfterStep(i, ctx, res) ==
    IF res.kind = "raise"
    THEN [pc |-> "done", idx |-> i, context |-> ctx, outcome |-> OnException(res.val)]
    ELSE IF Exceeded(now, start_time, timeout)
    THEN [pc |-> "done", idx |-> i, context |-> ctx, outcome |-> Return(TimeoutMsg)]
    ELSE IF res.kind = "str"
    THEN [pc |-> "done", idx |-> i, context |-> ctx, outcome |-> Return(res.val)]
    ELSE IF i < Len(Steps)
    THEN [pc |-> "check", idx |-> i + 1, context |-> res.ctx, outcome |-> NoOutcome]
    ELSE [pc |-> "done", idx |-> i, context |-> res.ctx,
          outcome |-> IF res.ctx = <<>> THEN Raise(IndexErrorMsg)
                      ELSE Return(res.ctx[Len(res.ctx)].content)]

\* The try/except of the loop body and what follows it, given what
\* step_func did: where solve goes next, with which context, and what it
\* returns if it returns. After the last step the loop ends and solve
\* returns context[-1]["content"].
LoopBody(i, ctx, res) ==
    IF res.kind = "raise"
    THEN [pc |-> "done", idx |-> i, context |-> ctx, outcome |-> OnException(res.val)]
    ELSE IF res.kind = "str"
    THEN [pc |-> "done", idx |-> i, context |-> ctx, outcome |-> Return(res.val)]
    ELSE IF i < Len(Steps)
    THEN [pc |-> "check", idx |-> i + 1, context |-> res.ctx, outcome |-> NoOutcome]
    ELSE [pc |-> "done", idx |-> i, context |-> res.ctx,
          outcome |-> IF res.ctx = <<>> THEN Raise(IndexErrorMsg)
                      ELSE Return(res.ctx[Len(res.ctx)].content)]

\* solve with the context list kept on the system between invocations.
SolveKeepsContext(t, tmo) ==
    /\ pc \in {"idle", "done"}
    /\ pc' = "check"
    /\ start_time' = now
    /\ timeout' = tmo
    /\ task' = t
    /\ idx' = 1
    /\ step_log' = <<>>
    /\ outcome' = NoOutcome
    /\ prior_context' = context
    /\ end_time' = 0
    /\ UNCHANGED <<now, context, process_call>>
    /\ UNCHANGED memVars
    /\ UNCHANGED <<agentVars, threads>>

\* A call solve(t, tmo): start_time is read, the context is a fresh list.
Solve(t, tmo) ==
    /\ pc \in {"idle", "done"}
    /\ pc' = "check"
    /\ start_time' = now
    /\ timeout' = tmo
    /\ task' = t
    /\ context' = <<>>
    /\ idx' = 1
    /\ step_log' = <<>>
    /\ outcome' = NoOutcome
    /\ prior_context' = context
    /\ end_time' = 0
    /\ UNCHANGED <<now, process_call>>
    /\ UNCHANGED memVars
    /\ UNCHANGED <<agentVars, threads>>

\* The clock advances; it does so at any moment, also while a step's model
\* call is in flight, and it may stand still between two readings.
Tick ==
    /\ now < MaxClock
    /\ now' = now + 1
    /\ UNCHANGED <<pc, start_time, timeout, task, context, idx, step_log, outcome,
                   end_time, prior_context, process_call>>
    /\ UNCHANGED memVars
    /\ UNCHANGED <<agentVars, threads>>

\* The top of the loop body: the timeout test.
CheckTimeout ==
    /\ pc = "check"
    /\ IF Exceeded(now, start_time, timeout)
       THEN /\ pc' = "done"
            /\ outcome' = Return(TimeoutMsg)
            /\ end_time' = now
       ELSE /\ pc' = "step"
            /\ UNCHANGED <<outcome, end_time>>
    /\ UNCHANGED <<now, start_time, timeout, task, context, idx, step_log,
                   prior_context, process_call>>
    /\ UNCHANGED memVars
    /\ UNCHANGED <<agentVars, threads>>

\* step_func(agent, task, context) runs, its model call doing `boundary`,
\* and the rest of the loop body follows.
RunStep(boundary) ==
    /\ pc = "step"
    /\ LET res == StepFunc(idx, task, context, boundary)
           nxt == LoopBody(idx, context, res)
       IN  /\ pc' = nxt.pc
           /\ idx' = nxt.idx
           /\ context' = nxt.context
           /\ outcome' = nxt.outcome
           /\ end_time' = IF nxt.pc = "done" THEN now ELSE end_time
    /\ step_log' = Append(step_log, [step |-> idx, func |-> Steps[idx].func,
                                     agent |-> Steps[idx].agent.name,
                                     boundary |-> boundary])
    /\ UNCHANGED <<now, start_time, timeout, task, prior_context, process_call>>
    /\ UNCHANGED memVars
    /\ UNCHANGED <<agentVars, threads>>

----------------------------------------------------------------------------
(* Self-improving agent: unnamed/part_000                                  *)

\* Turns explored in all histories of the agent.
MaxTurns == 4

\* respond inputs, and the roles and content of direct add_message calls.
AgentInputs == {"What is the capital of France?", "Tell me a joke"}
DirectRoles == {"user", "tool"}
DirectContents == {"note"}

\* What a model call of the agent does.
AgentBoundary == {BoundaryOk(r) : r \in Responses} \cup {BoundaryRaise("rate limit")}

\* ChatMessageHistory.add_message inserting at the front of the list.
add_message_at_front(messages, role, content) == <<Turn(role, content)>> \o messages

\* ChatMessageHistory.add_message, on the messages list of the object.
add_message(messages, role, content) == Append(messages, Turn(role, content))

\* ChatMessageHistory.get_history
get_history(messages) == messages

\* SelfImprovingAgent.get_chat_history: the store after the call; the
\* object returned is its entry for session_id.
agent_get_chat_history(st, session_id) ==
    IF session_id \notin DOMAIN st THEN Put(st, session_id, <<>>) ELSE st

RespondPrompt ==
    "You are an AI assistant. Given the conversation history, generate a response to the following input:\n"

\* respond's message list with only the user and assistant turns of the
\* history.
NotSystem(message) == message.role # "system"
RespondMessagesDialogueOnly(history, human_input) ==
    <<Turn("system", RespondPrompt)>> \o SelectSeq(history, NotSystem)
    \o <<Turn("user", human_input)>>

\* The message list respond sends to the model.
RespondMessages(history, human_input) ==
    <<Turn("system", RespondPrompt)>> \o history \o <<Turn("user", human_input)>>

\* SelfImprovingAgent.respond: the store after the call, the message list
\* sent and what the caller gets. The model call is not guarded, so its
\* exception leaves respond before the two add_message calls.
respond(st, session_id, human_input, boundary) ==
    LET st1 == agent_get_chat_history(st, session_id)
        history == get_history(st1[session_id])
        messages == RespondMessages(history, human_input)
    IN  IF boundary.kind = "raise"
        THEN [store |-> st1, messages |-> messages, outcome |-> Raise(boundary.val)]
        ELSE LET st2 == Put(st1, session_id,
                            add_message(st1[session_id], "user", human_input))
                 st3 == Put(st2, session_id,
                            add_message(st2[session_id], "assistant", boundary.val))
             IN  [store |-> st3, messages |-> messages,
                  outcome |-> Return(boundary.val)]

ReflectPrompt ==
    "Based on the following conversation history, provide insights on how to improve responses:\n"

\* The message list reflect sends to the model.
ReflectMessages(history) ==
    <<Turn("system", ReflectPrompt)>> \o history
    \o <<Turn("system", "Generate insights for improvement:")>>

LearnPrompt(insights) ==
    "Based on these insights, update the agent's knowledge and behavior:\n"
    \o insights \o "\nSummarize the key points to remember:"

\* The message list learn sends to the model.
LearnMessages(insights) ==
    <<Turn("system", "You are an AI agent that learns from its interactions."),
      Turn("user", LearnPrompt(insights))>>

LearnedMessage(learned_points) == "[SYSTEM] Agent learned: " \o learned_points

\* reflect_and_learn recording the insights in the history as soon as
\* reflect has returned, ahead of the call of learn.
reflect_and_learn_records_early(st, insights, session_id, b_reflect, b_learn) ==
    LET st1 == agent_get_chat_history(st, session_id)
        history == get_history(st1[session_id])
    IN  IF b_reflect.kind = "raise"
        THEN [store |-> st1, insights |-> insights,
              sent |-> <<ReflectMessages(history)>>,
              boundary |-> b_reflect, outcome |-> Raise(b_reflect.val)]
        ELSE LET new_insights == b_reflect.val
                 both == <<ReflectMessages(history), LearnMessages(new_insights)>>
                 st2 == Put(st1, session_id,
                            add_message(st1[session_id], "system",
                                        LearnedMessage(new_insights)))
             IN  IF b_learn.kind = "raise"
                 THEN [store |-> st2, insights |-> new_insights, sent |-> both,
                       boundary |-> b_learn, outcome |-> Raise(b_learn.val)]
                 ELSE [store |-> st2, insights |-> new_insights, sent |-> both,
                       boundary |-> b_learn, outcome |-> Return(b_learn.val)]

\* SelfImprovingAgent.reflect_and_learn, the model call of reflect doing
\* b_reflect and that of learn doing b_learn: the store and self.insights
\* after the call, the message lists sent and what the caller gets.
reflect_and_learn(st, insights, session_id, b_reflect, b_learn) ==
    LET st1 == agent_get_chat_history(st, session_id)
        history == get_history(st1[session_id])
    IN  IF b_reflect.kind = "raise"
        THEN [store |-> st1, insights |-> insights,
              sent |-> <<ReflectMessages(history)>>,
              boundary |-> b_reflect, outcome |-> Raise(b_reflect.val)]
        ELSE LET new_insights == b_reflect.val
                 both == <<ReflectMessages(history), LearnMessages(new_insights)>>
             IN  IF b_learn.kind = "raise"
                 THEN [store |-> st1, insights |-> new_insights, sent |-> both,
                       boundary |-> b_learn, outcome |-> Raise(b_learn.val)]
                 ELSE [store |-> Put(st1, session_id,
                                     add_message(st1[session_id], "system",
                                                 LearnedMessage(b_learn.val))),
                       insights |-> new_insights, sent |-> both,
                       boundary |-> b_learn, outcome |-> Return(b_learn.val)]

\* Number of turns in all histories of the agent.
AgentTurns == SumLen(self_store, DOMAIN self_store)

\* A call agent.respond(human_input, session_id).
Respond(session_id, human_input, boundary) ==
    /\ AgentTurns < MaxTurns
    /\ LET res == respond(self_store, session_id, human_input, boundary)
       IN  /\ self_store' = res.store
           /\ sent' = <<res.messages>>
           /\ last' = [NoOp EXCEPT !.op = "respond", !.sid = session_id,
                                   !.input = human_input, !.boundary = boundary,
                                   !.outcome = res.outcome]
    /\ added' = IF boundary.kind = "ok"
                THEN [added EXCEPT ![session_id] =
                          @ \o <<Turn("user", human_input),
                                 Turn("assistant", boundary.val)>>]
                ELSE added
    /\ UNCHANGED self_insights
    /\ UNCHANGED <<chat_store, long_term_memory, calls, threads>>
    /\ UNCHANGED solveVars

\* A call agent.reflect_and_learn(session_id).
ReflectAndLearn(session_id, b_reflect, b_learn) ==
    /\ AgentTurns < MaxTurns
    /\ LET res == reflect_and_learn(self_store, self_insights, session_id,
                                    b_reflect, b_learn)
       IN  /\ self_store' = res.store
           /\ self_insights' = res.insights
           /\ sent' = res.sent
           /\ last' = [NoOp EXCEPT !.op = "reflect_and_learn", !.sid = session_id,
                                   !.boundary = res.boundary,
                                   !.outcome = res.outcome]
           /\ added' = IF res.outcome.kind = "return"
                       THEN [added EXCEPT ![session_id] =
                                 Append(@, Turn("system", LearnedMessage(b_learn.val)))]
                       ELSE added
    /\ UNCHANGED <<chat_store, long_term_memory, calls, threads>>
    /\ UNCHANGED solveVars

\* A call agent.get_chat_history(session_id).
AgentGetChatHistory(session_id) ==
    /\ self_store' = agent_get_chat_history(self_store, session_id)
    /\ sent' = <<>>
    /\ last' = [NoOp EXCEPT !.op = "agent.get_chat_history", !.sid = session_id]
    /\ UNCHANGED <<self_insights, added>>
    /\ UNCHANGED <<chat_store, long_term_memory, calls, threads>>
    /\ UNCHANGED solveVars

\* A call agent.get_chat_history(session_id).add_message(role, content).
AddMessage(session_id, role, content) ==
    /\ AgentTurns < MaxTurns
    /\ LET st1 == agent_get_chat_history(self_store, session_id)
       IN  self_store' = Put(st1, session_id, add_message(st1[session_id], role, content))
    /\ added' = [added EXCEPT ![session_id] = Append(@, Turn(role, content))]
    /\ sent' = <<>>
    /\ last' = [NoOp EXCEPT !.op = "add_message", !.sid = session_id,
                            !.input = content]
    /\ UNCHANGED self_insights
    /\ UNCHANGED <<chat_store, long_term_memory, calls, threads>>
    /\ UNCHANGED solveVars

----------------------------------------------------------------------------
(* chat run on two threads, one session each, a line at a time and with no *)
(* lock: memory_enhanced_conversational_agent.ipynb                        *)

ThreadIds == {"t1", "t2"}

\* The session each thread calls chat on.
SessionOf(t) == IF t = "t1" THEN "user_123" ELSE "user_456"

\* Thread u is between the first and the last line of chat.
InFlight(u) == threads[u].pc \notin {"start", "returned", "raised"}

\* Thread t moves to position p with its locals changed as in `locals`;
\* overlap records that another thread was in flight at that moment.
Advance(t, p, locals) ==
    threads' = [threads EXCEPT ![t] =
                   [locals EXCEPT !.pc = p,
                                  !.overlap = @ \/ \E u \in ThreadIds \ {t} : InFlight(u)]]

\* long_term_mem = get_long_term_memory(session_id)
ChatReadLongTerm(t) ==
    /\ threads[t].pc = "start"
    /\ Advance(t, "get_history",
               [threads[t] EXCEPT !.long_term_mem =
                    get_long_term_memory(long_term_memory, threads[t].sid)])
    /\ UNCHANGED <<chat_store, long_term_memory, calls, last>>
    /\ UNCHANGED solveVars
    /\ UNCHANGED agentVars

\* chat_history = get_chat_history(session_id)
ChatGetHistory(t) ==
    /\ threads[t].pc = "get_history"
    /\ chat_store' = get_chat_history(chat_store, threads[t].sid)
    /\ Advance(t, "build_prompt", threads[t])
    /\ UNCHANGED <<long_term_memory, calls, last>>
    /\ UNCHANGED solveVars
    /\ UNCHANGED agentVars

\* The prompt is built from the session's list as it is now.
ChatBuildPrompt(t) ==
    /\ threads[t].pc = "build_prompt"
    /\ Advance(t, "call_model",
               [threads[t] EXCEPT !.prompt =
                    BuildPrompt(threads[t].long_term_mem,
                                chat_store[threads[t].sid], threads[t].input)])
    /\ UNCHANGED <<chat_store, long_term_memory, calls, last>>
    /\ UNCHANGED solveVars
    /\ UNCHANGED agentVars

\* response = generate_response(prompt)
ChatCallModel(t, boundary) ==
    /\ threads[t].pc = "call_model"
    /\ Advance(t, IF boundary.kind = "raise" THEN "raised" ELSE "append_user",
               [threads[t] EXCEPT !.boundary = boundary])
    /\ UNCHANGED <<chat_store, long_term_memory, calls, last>>
    /\ UNCHANGED solveVars
    /\ UNCHANGED agentVars

\* chat_history.append({"role": "user", "content": input_text})
ChatAppendUser(t) ==
    /\ threads[t].pc = "append_user"
    /\ chat_store' = Put(chat_store, threads[t].sid,
                         Append(chat_store[threads[t].sid],
                                Turn("user", threads[t].input)))
    /\ Advance(t, "append_response", threads[t])
    /\ UNCHANGED <<long_term_memory, calls, last>>
    /\ UNCHANGED solveVars
    /\ UNCHANGED agentVars

\* chat_history.append({"role": "assitant", "content": response})
ChatAppendResponse(t) ==
    /\ threads[t].pc = "append_response"
    /\ chat_store' = Put(chat_store, threads[t].sid,
                         Append(chat_store[threads[t].sid],
                                Turn("assitant", threads[t].boundary.val)))
    /\ Advance(t, "ltm_key", threads[t])
    /\ UNCHANGED <<long_term_memory, calls, last>>
    /\ UNCHANGED solveVars
    /\ UNCHANGED agentVars

\* update_long_term_memory is entered: "if session_id not in
\* long_term_memory: long_term_memory[session_id] = []"
ChatLtmKey(t) ==
    /\ threads[t].pc = "ltm_key"
    /\ long_term_memory' = IF threads[t].sid \notin DOMAIN long_term_memory
                           THEN Put(long_term_memory, threads[t].sid, <<>>)
                           ELSE long_term_memory
    /\ calls' = [calls EXCEPT ![threads[t].sid] =
                     Append(@, Call(threads[t].input, threads[t].boundary.val))]
    /\ Advance(t, "ltm_admit", threads[t])
    /\ UNCHANGED <<chat_store, last>>
    /\ UNCHANGED solveVars
    /\ UNCHANGED agentVars

\* "if len(input_text) > 20: ... long_term_memory[session_id].append(...)"
ChatLtmAdmit(t) ==
    /\ threads[t].pc = "ltm_admit"
    /\ long_term_memory' =
           IF Admit(threads[t].input)
           THEN Put(long_term_memory, threads[t].sid,
                    Append(long_term_memory[threads[t].sid],
                           Message(threads[t].input, threads[t].boundary.val)))
           ELSE long_term_memory
    /\ Advance(t, "ltm_trim", threads[t])
    /\ UNCHANGED <<chat_store, calls, last>>
    /\ UNCHANGED solveVars
    /\ UNCHANGED agentVars

\* The trim, and chat returns.
ChatLtmTrim(t) ==
    /\ threads[t].pc = "ltm_trim"
    /\ long_term_memory' = Put(long_term_memory, threads[t].sid,
                               Trim(long_term_memory[threads[t].sid]))
    /\ Advance(t, "returned", threads[t])
    /\ UNCHANGED <<chat_store, calls, last>>
    /\ UNCHANGED solveVars
    /\ UNCHANGED agentVars

----------------------------------------------------------------------------
(* Specifications.                                                         *)

InitMem ==
    /\ chat_store = EmptyDict
    /\ long_term_memory = EmptyDict
    /\ calls = [s \in SessionIds |-> <<>>]
    /\ last = NoOp

InitSolve ==
    /\ pc = "idle"
    /\ now = 0
    /\ start_time = 0
    /\ timeout = 0
    /\ task = ""
    /\ context = <<>>
    /\ idx = 1
    /\ step_log = <<>>
    /\ outcome = NoOutcome
    /\ end_time = 0
    /\ prior_context = <<>>
    /\ process_call = NoProcessCall

InitAgent ==
    /\ self_store = EmptyDict
    /\ self_insights = ""
    /\ added = [s \in SessionIds |-> <<>>]
    /\ sent = <<>>

InitThreads == threads = EmptyDict

Init == InitMem /\ InitSolve /\ InitAgent /\ InitThreads

\* Direct use of the long-term store.
NextLTM ==
    \E s \in SessionIds, i \in LtmInputs, o \in Responses :
        UpdateLongTermMemory(s, i, o)

SpecLTM == Init /\ [][NextLTM]_vars

\* Five admitted update_long_term_memory calls made on one session before
\* the first chat: the session's long-term store is full.
PriorCalls ==
    <<Call("twenty-one characters", "r1"), Call("twenty-one characters", "r2"),
      Call("twenty-one characters", "r2"), Call("twenty-one characters", "r1"),
      Call("twenty-one characters", "r1")>>

\* long_term_memory after update_long_term_memory was called on session_id
\* with each of cs in turn.
RECURSIVE AfterCalls(_, _, _)
AfterCalls(ltm, session_id, cs) ==
    IF cs = <<>> THEN ltm
    ELSE AfterCalls(update_long_term_memory(ltm, session_id, cs[1].input, cs[1].output),
                    session_id, Tail(cs))

\* chat is first called either on empty stores or after PriorCalls on
\* session "user_123".
InitChat ==
    /\ chat_store = EmptyDict
    /\ \E prior \in {<<>>, PriorCalls} :
           /\ calls = [s \in SessionIds |-> IF s = "user_123" THEN prior ELSE <<>>]
           /\ long_term_memory = AfterCalls(EmptyDict, "user_123", prior)
    /\ last = NoOp
    /\ InitSolve
    /\ InitAgent
    /\ InitThreads

\* chat calls.
NextChat ==
    \E s \in SessionIds, i \in ChatInputs, b \in Boundary : Chat(s, i, b)

SpecChat == InitChat /\ [][NextChat]_vars

\* solve calls.
NextSolve ==
    \/ \E t \in Tasks, tmo \in Timeouts : Solve(t, tmo)
    \/ Tick
    \/ CheckTimeout
    \/ \E b \in Boundary : RunStep(b)

SpecSolve == Init /\ [][NextSolve]_vars

Next == NextLTM \/ NextChat \/ NextSolve

Spec == Init /\ [][Next]_vars

\* A longer run of chat calls on fresh stores, with one short and one long
\* input and a model that returns one text or raises one error.
MaxRunChats == 6
RunInputs == {"Hi", "Hello! My name is Alice."}
RunBoundary == {BoundaryOk("r1"), BoundaryRaise("rate limit")}

ChatRun(session_id, input_text, boundary) ==
    /\ TotalTurns < 2 * MaxRunChats
    /\ ChatCall(session_id, input_text, boundary)

NextChatRun ==
    \E s \in SessionIds, i \in RunInputs, b \in RunBoundary : ChatRun(s, i, b)

SpecChatRun == Init /\ [][NextChatRun]_vars

\* The self-improving agent, its ChatMessageHistory objects used directly
\* as well.
NextAgent ==
    \/ \E s \in SessionIds, i \in AgentInputs, b \in AgentBoundary : Respond(s, i, b)
    \/ \E s \in SessionIds, b1 \in AgentBoundary, b2 \in AgentBoundary :
           ReflectAndLearn(s, b1, b2)
    \/ \E s \in SessionIds, r \in DirectRoles, c \in DirectContents : AddMessage(s, r, c)

SpecAgent == Init /\ [][NextAgent]_vars

\* The calls that record turns. Each notebook is a program of its own, so
\* a run is a run of chat or a run of the agent's respond and
\* reflect_and_learn.
NextChatNotebook == last.op \in {"none", "chat"} /\ NextChat

NextAgentNotebook ==
    /\ last.op \in {"none", "respond", "reflect_and_learn"}
    /\ \/ \E s \in SessionIds, i \in AgentInputs, b \in AgentBoundary : Respond(s, i, b)
       \/ \E s \in SessionIds, b1 \in AgentBoundary, b2 \in AgentBoundary :
              ReflectAndLearn(s, b1, b2)

NextTurns == NextChatNotebook \/ NextAgentNotebook

SpecTurns == InitChat /\ [][NextTurns]_vars

\* The four operations of the memory notebook used together after
\* PriorCalls on session "user_123", until MaxStoreOps further
\* update_long_term_memory invocations have been made.
MaxStoreOps == 3

InitStore ==
    /\ chat_store = EmptyDict
    /\ calls = [s \in SessionIds |-> IF s = "user_123" THEN PriorCalls ELSE <<>>]
    /\ long_term_memory = AfterCalls(EmptyDict, "user_123", PriorCalls)
    /\ last = NoOp
    /\ InitSolve
    /\ InitAgent
    /\ InitThreads

StoreUpdate(session_id, input_text, output_text) ==
    /\ TotalCalls < MaxStoreOps + Len(PriorCalls)
    /\ UpdateCall(session_id, input_text, output_text)

StoreChat(session_id, input_text, boundary) ==
    /\ TotalCalls < MaxStoreOps + Len(PriorCalls)
    /\ ChatCall(session_id, input_text, boundary)

NextStore ==
    \/ \E s \in SessionIds : GetChatHistory(s)
    \/ \E s \in SessionIds : GetLongTermMemory(s)
    \/ \E s \in SessionIds, i \in RunInputs : StoreUpdate(s, i, "r2")
    \/ \E s \in SessionIds, i \in RunInputs, b \in RunBoundary : StoreChat(s, i, b)

SpecStore == InitStore /\ [][NextStore]_vars

\* Two threads, each about to call chat on its own session, on stores that
\* are empty or hold PriorCalls.
InitInterleaved ==
    /\ chat_store = EmptyDict
    /\ \E prior \in {<<>>, PriorCalls} :
           /\ calls = [s \in SessionIds |-> IF s = "user_123" THEN prior ELSE <<>>]
           /\ long_term_memory = AfterCalls(EmptyDict, "user_123", prior)
    /\ last = NoOp
    /\ InitSolve
    /\ InitAgent
    /\ \E inputs \in [ThreadIds -> RunInputs] :
           threads = [t \in ThreadIds |->
                         [pc |-> "start", sid |-> SessionOf(t), input |-> inputs[t],
                          long_term_mem |-> "", prompt |-> "",
                          boundary |-> BoundaryNone, overlap |-> FALSE]]

NextInterleaved ==
    \E t \in ThreadIds :
        \/ ChatReadLongTerm(t)
        \/ ChatGetHistory(t)
        \/ ChatBuildPrompt(t)
        \/ \E b \in RunBoundary : ChatCallModel(t, b)
        \/ ChatAppendUser(t)
        \/ ChatAppendResponse(t)
        \/ ChatLtmKey(t)
        \/ ChatLtmAdmit(t)
        \/ ChatLtmTrim(t)

SpecInterleaved == InitInterleaved /\ [][NextInterleaved]_vars

\* get_chat_history called directly between the calls that record turns,
\* in a run of the chat notebook or in a run of the agent.
NextChatHistories ==
    /\ last.op \in {"none", "chat", "get_chat_history"}
    /\ \/ \E s \in SessionIds : GetChatHistory(s)
       \/ \E s \in SessionIds, i \in RunInputs, b \in RunBoundary : Chat(s, i, b)

NextAgentHistories ==
    /\ last.op \in {"none", "respond", "reflect_and_learn", "agent.get_chat_history"}
    /\ \/ \E s \in SessionIds : AgentGetChatHistory(s)
       \/ \E s \in SessionIds, i \in AgentInputs, b \in AgentBoundary : Respond(s, i, b)
       \/ \E s \in SessionIds, b1 \in AgentBoundary, b2 \in AgentBoundary :
              ReflectAndLearn(s, b1, b2)

NextHistories == NextChatHistories \/ NextAgentHistories

SpecHistories == Init /\ [][NextHistories]_vars

\* Direct calls of Agent.process on the two agents.
NextProcess ==
    \E agent \in {history_agent, data_agent}, t \in ProcessTasks,
       c \in Contexts, b \in Boundary : Process(agent, t, c, b)

SpecProcess == Init /\ [][NextProcess]_vars

\* solve with its own steps always taken in the end: the interpreter goes
\* on to the timeout test, and a model call that was made returns or
\* raises.
SpecSolveFair ==
    /\ Init
    /\ [][NextSolve]_vars
    /\ WF_vars(CheckTimeout)
    /\ WF_vars(\E b \in Boundary : RunStep(b))

----------------------------------------------------------------------------
(* Properties.                                                             *)

\* The history and the long-term store of a session as a caller sees them:
\* empty for a session the dict has no key for.
HistOf(store, s) == IF s \in DOMAIN store THEN store[s] ELSE <<>>
LtmOf(ltm, s) == IF s \in DOMAIN ltm THEN ltm[s] ELSE <<>>
Hist(s) == HistOf(chat_store, s)
Ltm(s) == LtmOf(long_term_memory, s)

\* The last n elements of seq.
Suffix(seq, n) ==
    IF Len(seq) <= n THEN seq ELSE [j \in 1..n |-> seq[Len(seq) - n + j]]

Min(a, b) == IF a <= b THEN a ELSE b

\* A pair as the long-term store holds it.
PairOf(input_text, output_text) ==
    <<[role |-> "user", content |-> input_text],
      [role |-> "assistant", content |-> output_text]>>

\* The calls on session s whose input is longer than 20 characters, and
\* the pairs they were made with, in call order.
LongInput(c) == Len(c.input) > 20
AdmittedCalls(s) == SelectSeq(calls[s], LongInput)
AdmittedPairs(s) ==
    [j \in 1..Len(AdmittedCalls(s)) |->
        PairOf(AdmittedCalls(s)[j].input, AdmittedCalls(s)[j].output)]

\* C1: after any sequence of update_long_term_memory calls, on any
\* sessions and with inputs admitted or not, every session's long-term
\* store holds at most 5 pairs.
C1_LongTermAtMostFive ==
    \A s \in DOMAIN long_term_memory : Len(long_term_memory[s]) <= 5

\* C1 witness: a session on which six or more pairs were admitted holds 5.
C1_Witness ==
    \E s \in DOMAIN long_term_memory :
        /\ Len(AdmittedCalls(s)) >= 6
        /\ Len(long_term_memory[s]) = 5

\* C2: update_long_term_memory(s, input, output) appends the pair
\* (input, output) to s's long-term store if and only if len(input) > 20:
\* a call with a longer input leaves the pair as the store's last element
\* and the store one longer (or at 5), a call with an input of 20
\* characters or fewer leaves the store's content as it was; and no
\* retained pair ever has a user part of 20 characters or fewer.
C2_AdmissionRule ==
    /\ [](\A s \in DOMAIN long_term_memory :
            \A j \in 1..Len(long_term_memory[s]) :
                Len(long_term_memory[s][j][1].content) > 20)
    /\ [][\A s \in SessionIds :
            calls'[s] # calls[s] =>
                LET c == calls'[s][Len(calls'[s])]
                    after == LtmOf(long_term_memory', s)
                IN  IF Len(c.input) > 20
                    THEN /\ after # <<>>
                         /\ after[Len(after)] = PairOf(c.input, c.output)
                         /\ Len(after) = Min(Len(Ltm(s)) + 1, 5)
                    ELSE after = Ltm(s)]_vars

\* C2 witness: a session that has pairs retained was just called with an
\* input of exactly 20 characters.
C2_Witness ==
    /\ last.op = "update_long_term_memory"
    /\ Len(last.input) = 20
    /\ Len(Ltm(last.sid)) >= 2
    /\ Len(calls[last.sid]) > Len(AdmittedCalls(last.sid)) + 1

\* C3: eviction is FIFO by insertion: a session's long-term store is the
\* most recent min(m, 5) of the m pairs admitted on it, in insertion
\* order (so after p1..p6 it is [p2..p6], and a pair just admitted is the
\* last element).
C3_FifoEviction ==
    \A s \in SessionIds : Ltm(s) = Suffix(AdmittedPairs(s), 5)

\* C3 witness: six pairs p1..p6 admitted on a session, p1 unlike p2, with
\* calls that admit nothing in between.
C3_Witness ==
    \E s \in SessionIds :
        /\ Len(AdmittedPairs(s)) = 6
        /\ AdmittedPairs(s)[1] # AdmittedPairs(s)[2]
        /\ Len(calls[s]) = 7
        /\ Ltm(s) = SubSeq(AdmittedPairs(s), 2, 6)

\* C4: when the model call succeeds, chat(input, s) grows s's history by
\* exactly two turns, the user turn with the input and then the turn with
\* the returned response, returns the response, and s's long-term store
\* gets the pair, evicting the oldest beyond 5, exactly when the input is
\* longer than 20 characters. (chat writes the role of the response turn
\* as "assitant"; the turn is told here by its place and content.)
C4_ChatSuccess ==
    [][(last'.op = "chat" /\ last'.boundary.kind = "ok") =>
          LET s == last'.sid
              i == last'.input
              r == last'.boundary.val
              before == HistOf(chat_store, s)
              after == HistOf(chat_store', s)
              ltm == LtmOf(long_term_memory, s)
          IN  /\ Len(after) = Len(before) + 2
              /\ SubSeq(after, 1, Len(before)) = before
              /\ after[Len(before) + 1] = [role |-> "user", content |-> i]
              /\ after[Len(before) + 2].content = r
              /\ after[Len(before) + 2].role # "user"
              /\ last'.outcome = [kind |-> "return", val |-> r]
              /\ LtmOf(long_term_memory', s) =
                     IF Len(i) > 20
                     THEN Suffix(ltm \o <<PairOf(i, r)>>, 5)
                     ELSE ltm]_vars

\* C4 witness: a successful chat with an input of 24 characters on a
\* session whose long-term store was full and whose history was not empty.
C4_Witness ==
    /\ last.op = "chat"
    /\ last.boundary.kind = "ok"
    /\ Len(last.input) = 24
    /\ Len(Hist(last.sid)) = 4
    /\ Len(AdmittedCalls(last.sid)) >= 6
    /\ Len(Ltm(last.sid)) = 5

\* C5: when the model call raises, chat(input, s) raises that exception
\* to its caller and every session's history and long-term store are as
\* they were before the call: no user turn is recorded.
C5_ChatFailure ==
    [][(last'.op = "chat" /\ last'.boundary.kind = "raise") =>
          /\ last'.outcome = [kind |-> "raise", val |-> last'.boundary.val]
          /\ \A s \in SessionIds : HistOf(chat_store', s) = HistOf(chat_store, s)
          /\ long_term_memory' = long_term_memory]_vars

\* C5 witness: the model call raised in a chat on a session that has
\* turns and long-term pairs from earlier calls.
C5_Witness ==
    /\ last.op = "chat"
    /\ last.boundary.kind = "raise"
    /\ last.outcome.kind = "raise"
    /\ Len(Hist(last.sid)) = 2
    /\ Len(Ltm(last.sid)) >= 1

\* The two canonical strings of solve.
TimeoutString == "Operation timed out. The process took too long to complete."
ErrorString(e) == "Error during collaboration: " \o e

\* How often step k was invoked in the current solve invocation.
StepCalls(k) == Cardinality({j \in 1..Len(step_log) : step_log[j].step = k})

\* C6: solve never lets an exception out, and what a finished invocation
\* returned is the timeout string, the error string with the exception's
\* message, or the final answer, the text of the model.
C6_SolveReturnsString ==
    /\ outcome.kind # "raise"
    /\ pc = "done" =>
          /\ outcome.kind = "return"
          /\ \/ outcome.val = TimeoutString
             \/ \E e \in Errors \cup {"list index out of range"} :
                    outcome.val = ErrorString(e)
             \/ outcome.val \in Responses

\* C6 witness: an invocation that ended with the model raising in its
\* third step, after two steps that succeeded.
C6_Witness ==
    /\ pc = "done"
    /\ Len(step_log) = 3
    /\ step_log[3].boundary.kind = "raise"
    /\ outcome.val = ErrorString(step_log[3].boundary.val)

\* C7: if step k raises, solve returns the error string with that
\* exception's message, step k is not invoked again and no later step is
\* invoked: the raising step is the last entry of the invocation's log,
\* which holds steps 1..k once each.
C7_ErrorContainment ==
    \A k \in 1..Len(step_log) :
        step_log[k].boundary.kind = "raise" =>
            /\ k = Len(step_log)
            /\ \A j \in 1..Len(step_log) : step_log[j].step = j
            /\ \A j \in 1..5 : StepCalls(j) = (IF j <= k THEN 1 ELSE 0)
            /\ pc = "done"
            /\ outcome = [kind |-> "return",
                          val |-> ErrorString(step_log[k].boundary.val)]

\* C7 witness: step 2 of 5 raised.
C7_Witness ==
    /\ Len(step_log) = 2
    /\ step_log[2].boundary.kind = "raise"
    /\ StepCalls(3) = 0
    /\ pc = "done"

\* C8: at the top of each loop iteration solve compares the elapsed time
\* with timeout: if it is greater solve returns the timeout string at
\* once, without invoking that step, else it goes on to the step; a step
\* is entered only through that test; and an invocation that returned
\* the timeout string at step idx invoked neither that step nor a later
\* one.
C8_TimeoutCheck ==
    /\ [][(pc = "check" /\ pc' # "check") =>
             IF now - start_time > timeout
             THEN /\ pc' = "done"
                  /\ outcome' = [kind |-> "return", val |-> TimeoutString]
                  /\ step_log' = step_log
             ELSE pc' = "step"]_vars
    /\ [][(pc' = "step" /\ pc # "step") =>
             (pc = "check" /\ ~(now - start_time > timeout))]_vars
    /\ [][step_log' # step_log /\ step_log' # <<>> => pc = "step"]_vars
    /\ []((pc = "done" /\ outcome.val = TimeoutString) =>
             \A k \in idx..5 : StepCalls(k) = 0)

\* C8 witness: the timeout string returned at the third step boundary.
C8_Witness ==
    /\ pc = "done"
    /\ outcome.val = TimeoutString
    /\ timeout = 1
    /\ idx = 3
    /\ Len(step_log) = 2

\* C9 as stated: with a timeout of 0 solve returns the timeout string and
\* invokes no step, whatever the clock does.
C9_TimeoutZeroRunsNoStep ==
    timeout = 0 =>
        /\ step_log = <<>>
        /\ pc = "done" => outcome = [kind |-> "return", val |-> TimeoutString]

\* C9 amended: with a timeout of 0, a test made when the clock reads more
\* than start_time returns the timeout string without invoking the step; a
\* test made while the clock still reads start_time (elapsed 0, which is
\* not > 0) goes on to invoke the step. So solve returns the timeout
\* string with no step invoked exactly when the clock has advanced by the
\* first test.
C9_TimeoutZeroAmended ==
    [][(timeout = 0 /\ pc = "check" /\ pc' # "check") =>
          IF now > start_time
          THEN /\ pc' = "done"
               /\ outcome' = [kind |-> "return", val |-> TimeoutString]
               /\ step_log' = step_log
          ELSE /\ now = start_time
               /\ pc' = "step"]_vars

\* C9 witness: timeout 0, the clock advanced before the first test, the
\* timeout string returned and no step invoked.
C9_Witness ==
    /\ timeout = 0
    /\ pc = "done"
    /\ now > start_time
    /\ step_log = <<>>
    /\ outcome.val = TimeoutString

\* All five steps ran in the current invocation and no model call raised.
AllStepsRan ==
    /\ pc = "done"
    /\ Len(step_log) = 5
    /\ \A k \in 1..5 : step_log[k].step = k /\ step_log[k].boundary.kind = "ok"

\* C10 as stated: when all five steps run with no exception and ample
\* timeout, solve returns the content of the last entry of the final
\* shared context.
C10_ReturnsLastContextEntry ==
    (AllStepsRan /\ timeout = 300) =>
        /\ context # <<>>
        /\ outcome = [kind |-> "return", val |-> context[Len(context)].content]

\* C10 amended: when all five steps run with no exception and ample
\* timeout, solve returns verbatim the text the model gave the fifth
\* step; that step appends nothing, so the final shared context has four
\* entries, the last of them the fourth step's "Data Agent: ..." entry.
C10_ReturnsSynthesisOutput ==
    (AllStepsRan /\ timeout = 300) =>
        /\ outcome = [kind |-> "return", val |-> step_log[5].boundary.val]
        /\ Len(context) = 4
        /\ context[4] = [role |-> "assistant",
                         content |-> "Data Agent: " \o step_log[4].boundary.val]

\* C10 witness: five successful steps under the default timeout, with
\* time having passed.
C10_Witness ==
    /\ AllStepsRan
    /\ timeout = 300
    /\ now - start_time >= 2
    /\ outcome.val = step_log[5].boundary.val

\* C11: on sessions that start fresh, after n successful chat calls on a
\* session, m of them with an input longer than 20 characters, the
\* session's history has 2n turns and its long-term store min(m, 5)
\* pairs; a 24-character input followed by a 2-character one gives 4 turns
\* and one pair, made by the first call.
C11_FreshSessionCounts ==
    \A s \in SessionIds :
        LET n == Len(calls[s])
            m == Len(AdmittedCalls(s))
        IN  /\ Len(Hist(s)) = 2 * n
            /\ Len(Ltm(s)) = Min(m, 5)
            /\ (/\ n = 2
                /\ Len(calls[s][1].input) = 24
                /\ Len(calls[s][2].input) = 2)
               => /\ Len(Hist(s)) = 4
                  /\ Ltm(s) = <<PairOf(calls[s][1].input, calls[s][1].output)>>

\* C11 witness: six successful chats with inputs of 24 characters on one
\* session, so that m = 6 exceeds the cap.
C11_Witness ==
    /\ last.op = "chat"
    /\ last.boundary.kind = "ok"
    /\ Len(calls["user_123"]) = 6
    /\ Len(AdmittedCalls("user_123")) = 6
    /\ Len(Ltm("user_123")) = 5
    /\ Len(Hist("user_123")) = 12

\* The history of session s of the self-improving agent.
AgentHist(s) == HistOf(self_store, s)

\* C12: after N add_message calls on one session's history, interleaved
\* with calls on other sessions, that history has exactly N turns, the
\* j-th carrying the role and the content of the j-th call.
C12_RecordedInCallOrder ==
    \A s \in SessionIds :
        /\ Len(AgentHist(s)) = Len(added[s])
        /\ \A j \in 1..Len(added[s]) :
               /\ AgentHist(s)[j].role = added[s][j].role
               /\ AgentHist(s)[j].content = added[s][j].content

\* C12 witness: three add_message calls on one session, made by respond
\* and by reflect_and_learn, and a direct one on the other session.
C12_Witness ==
    /\ Len(added["user_123"]) = 3
    /\ added["user_123"][1].role = "user"
    /\ added["user_123"][2].role = "assistant"
    /\ added["user_123"][3].role = "system"
    /\ Len(added["user_456"]) = 1
    /\ added["user_456"][1].role = "tool"
    /\ last.sid = "user_123"

\* The lines "role: content" of turns j.. of a history, in order.
RECURSIVE TurnLinesFrom(_, _)
TurnLinesFrom(turns, j) ==
    IF j > Len(turns) THEN ""
    ELSE turns[j].role \o ": " \o turns[j].content \o "\n" \o TurnLinesFrom(turns, j + 1)

\* C13: the prompt chat sends is the instruction, then the long-term
\* memory section, then the recorded turns of the session in the order of
\* recording, then the new user input; the message list respond sends is
\* the system message, then the recorded turns in the order of recording,
\* then the new user input as the last message.
C13_PromptOrder ==
    [][/\ last'.op = "chat" =>
            LET s == last'.sid
                text == get_long_term_memory(long_term_memory, s)
            IN  last'.prompt =
                    "You are a helpful AI assistant. Use the information from long-term memory if relevant.\n"
                    \o (IF text = "" THEN "No long-term memory yet.\n"
                        ELSE "Long-term memory: " \o text \o "\n")
                    \o TurnLinesFrom(HistOf(chat_store, s), 1)
                    \o "user: " \o last'.input \o "\n"
       /\ last'.op = "respond" =>
            LET h == HistOf(self_store, last'.sid)
                msgs == sent'[1]
            IN  /\ Len(sent') = 1
                /\ Len(msgs) = Len(h) + 2
                /\ msgs[1].role = "system"
                /\ \A j \in 1..Len(h) : msgs[j + 1] = h[j]
                /\ msgs[Len(h) + 2] = [role |-> "user", content |-> last'.input]]_vars

\* C13 witness: a chat on a session that has long-term pairs and two
\* recorded turns.
C13_Witness ==
    /\ last.op = "chat"
    /\ last.boundary.kind = "ok"
    /\ Len(Hist(last.sid)) = 4
    /\ Len(Ltm(last.sid)) >= 2

\* C14 as stated: the user turn is recorded before the model is called, so
\* after a chat whose model call raised the session's history ends with
\* the input of that call, unanswered.
C14_InputRecordedBeforeModelCall ==
    (last.op = "chat" /\ last.boundary.kind = "raise") =>
        /\ Hist(last.sid) # <<>>
        /\ Hist(last.sid)[Len(Hist(last.sid))] =
               [role |-> "user", content |-> last.input]

\* C14, amended: chat calls the model first and records afterwards. A chat
\* whose model call raised leaves the session's history and long-term
\* store as they were; one whose model call returned r has appended the
\* user turn and then the turn of r, and has then updated the long-term
\* store with the pair (input, r).
C14_InputRecordedAfterModelCall ==
    [][last'.op = "chat" =>
          LET s == last'.sid
              before == HistOf(chat_store, s)
              after == HistOf(chat_store', s)
          IN  IF last'.boundary.kind = "raise"
              THEN /\ after = before
                   /\ LtmOf(long_term_memory', s) = LtmOf(long_term_memory, s)
              ELSE /\ Len(after) = Len(before) + 2
                   /\ SubSeq(after, 1, Len(before)) = before
                   /\ after[Len(before) + 1].content = last'.input
                   /\ after[Len(before) + 2].content = last'.boundary.val
                   /\ Len(last'.input) > 20 =>
                          LET ltm == LtmOf(long_term_memory', s)
                          IN  ltm[Len(ltm)] = PairOf(last'.input, last'.boundary.val)]_vars

\* C14 witness: the model call raised in a chat on a session whose history
\* holds one answered exchange and nothing after it.
C14_Witness ==
    /\ last.op = "chat"
    /\ last.boundary.kind = "raise"
    /\ Len(Hist(last.sid)) = 2
    /\ Hist(last.sid)[1].role = "user"
    /\ Hist(last.sid)[2].content \in Responses

\* The roles of the turns of a history.
RolesOf(h) == {h[j].role : j \in 1..Len(h)}

\* C15: every turn stored in a session history by chat, respond or
\* reflect_and_learn has a role in {user, assistant, system}.
C15_RolesCanonical ==
    \A s \in SessionIds :
        /\ RolesOf(Hist(s)) \subseteq {"user", "assistant", "system"}
        /\ RolesOf(AgentHist(s)) \subseteq {"user", "assistant", "system"}

\* C16: an operation on one session (get_chat_history, chat,
\* update_long_term_memory, get_long_term_memory) leaves the history and
\* the long-term store of every other session as they were, and creates
\* no entry for another session.
C16_SessionsIndependent ==
    [][\A b \in SessionIds \ {last'.sid} :
          /\ HistOf(chat_store', b) = HistOf(chat_store, b)
          /\ LtmOf(long_term_memory', b) = LtmOf(long_term_memory, b)
          /\ b \in DOMAIN chat_store' <=> b \in DOMAIN chat_store
          /\ b \in DOMAIN long_term_memory' <=> b \in DOMAIN long_term_memory]_vars

\* C16 witness: a successful chat that admitted a pair on one session while
\* the other session holds turns and long-term pairs.
C16_Witness ==
    /\ last.op = "chat"
    /\ last.boundary.kind = "ok"
    /\ Len(last.input) > 20
    /\ \E b \in SessionIds \ {last.sid} :
           /\ Len(Hist(b)) >= 2
           /\ Len(Ltm(b)) >= 1

\* The pairs held by any session's long-term store, and the lists of up to
\* ten of them a long-term memory text could be rendered from.
AllPairs == UNION {{Ltm(s)[j] : j \in 1..Len(Ltm(s))} : s \in SessionIds}
PairLists == UNION {[1..n -> AllPairs] : n \in 0..10}

\* The history of the session of the last chat as it was when its prompt
\* was built.
HistAtPrompt ==
    IF last.boundary.kind = "ok"
    THEN FirstN(Hist(last.sid), Len(Hist(last.sid)) - 2)
    ELSE Hist(last.sid)

\* C17: a pair admitted to long-term memory during a chat under one
\* session id is part of the long-term memory text in the prompt of a
\* later chat made under a different session id.
C17_MemoryAcrossSessions ==
    last.op = "chat" =>
        \A a \in SessionIds \ {last.sid} :
            \A j \in 1..Len(Ltm(a)) :
                \E items \in PairLists :
                    /\ \E k \in 1..Len(items) : items[k] = Ltm(a)[j]
                    /\ last.prompt =
                           BuildPrompt(JoinItems(". ", items), HistAtPrompt, last.input)

\* Both threads have left chat.
AllLeft ==
    /\ DOMAIN threads = ThreadIds
    /\ \A t \in ThreadIds : threads[t].pc \in {"returned", "raised"}

\* The update_long_term_memory calls made on session s before the threads
\* started.
CallsBefore(s) ==
    IF \E t \in ThreadIds : threads[t].sid = s /\ threads[t].pc = "returned"
    THEN FirstN(calls[s], Len(calls[s]) - 1)
    ELSE calls[s]

\* The stores after the chat call of thread first and then that of thread
\* second, one after the other, on the stores the threads started from.
Serial(first, second) ==
    LET ltm0 == AfterCalls(EmptyDict, "user_123", CallsBefore("user_123"))
        r1 == chat(EmptyDict, ltm0, threads[first].sid, threads[first].input,
                   threads[first].boundary)
    IN  chat(r1.chat_store, r1.long_term_memory, threads[second].sid,
             threads[second].input, threads[second].boundary)

\* C18: when two chat calls on different sessions are interleaved line by
\* line with no lock, each session's final history and long-term store
\* are those of the two calls made one after the other, in either order.
C18_InterleavingEqualsSerial ==
    AllLeft =>
        \A first \in ThreadIds : \A second \in ThreadIds \ {first} :
            \A s \in SessionIds :
                /\ Hist(s) = HistOf(Serial(first, second).chat_store, s)
                /\ Ltm(s) = LtmOf(Serial(first, second).long_term_memory, s)

\* C18 witness: both calls overlapped and returned, each admitted a pair,
\* and the full store of one session was trimmed.
C18_Witness ==
    /\ AllLeft
    /\ \A t \in ThreadIds :
           /\ threads[t].pc = "returned"
           /\ threads[t].overlap
           /\ Len(threads[t].input) > 20
    /\ Len(calls["user_123"]) = 6
    /\ Len(Ltm("user_123")) = 5
    /\ Len(Ltm("user_456")) = 1

\* C19: the step functions invoked by one solve invocation are, in order,
\* research_historical_context with the history agent, identify_data_needs
\* with the data agent, provide_historical_data with the history agent,
\* analyze_data with the data agent and synthesize_final_answer with the
\* history agent; none is invoked twice, and a step is invoked only after
\* the one before it returned without an exception.
C19_FixedStepOrder ==
    LET funcs == <<"research_historical_context", "identify_data_needs",
                   "provide_historical_data", "analyze_data",
                   "synthesize_final_answer">>
        agents == <<"Clio", "Data", "Clio", "Data", "Clio">>
    IN  /\ Len(step_log) <= 5
        /\ \A j \in 1..Len(step_log) :
               /\ step_log[j].func = funcs[j]
               /\ step_log[j].agent = agents[j]
               /\ j > 1 => step_log[j - 1].boundary.kind = "ok"

\* C19 witness: a solve invocation got as far as analyze_data, whose model
\* call raised.
C19_Witness ==
    /\ pc = "done"
    /\ Len(step_log) = 4
    /\ step_log[4].func = "analyze_data"
    /\ step_log[4].boundary.kind = "raise"
    /\ outcome.kind = "return"

\* Sequence a is the beginning of sequence b.
IsPrefix(a, b) == Len(a) <= Len(b) /\ \A j \in 1..Len(a) : b[j] = a[j]

\* C20: in every step of chat, respond or reflect_and_learn, returning or
\* raising, each session's history before the step is a prefix of its
\* history after it: no stored turn is removed, moved or altered.
C20_HistoryAppendOnly ==
    [][\A s \in SessionIds :
          /\ IsPrefix(HistOf(chat_store, s), HistOf(chat_store', s))
          /\ IsPrefix(HistOf(self_store, s), HistOf(self_store', s))]_vars

\* C20 witness: reflect_and_learn on a session with one recorded exchange,
\* in which reflect returned and the model call of learn raised.
C20_Witness ==
    /\ last.op = "reflect_and_learn"
    /\ last.outcome.kind = "raise"
    /\ self_insights # ""
    /\ Len(AgentHist(last.sid)) = 2
    /\ Len(sent) = 2

\* C21: get_chat_history(s) never raises; on the first reference to s it
\* creates an empty history for s, on a later reference it leaves the
\* history of s with every recorded turn as it was, and in both cases the
\* history it returns is the entry of s and no other session is touched.
\* The same holds of SelfImprovingAgent.get_chat_history.
C21_GetChatHistoryTotal ==
    [][/\ last'.op = "get_chat_history" =>
            /\ last'.outcome.kind = "return"
            /\ last'.sid \in DOMAIN chat_store'
            /\ chat_store'[last'.sid] =
                   (IF last'.sid \in DOMAIN chat_store
                    THEN chat_store[last'.sid] ELSE <<>>)
            /\ \A b \in SessionIds \ {last'.sid} :
                   HistOf(chat_store', b) = HistOf(chat_store, b)
       /\ last'.op = "agent.get_chat_history" =>
            /\ last'.outcome.kind = "return"
            /\ last'.sid \in DOMAIN self_store'
            /\ self_store'[last'.sid] =
                   (IF last'.sid \in DOMAIN self_store
                    THEN self_store[last'.sid] ELSE <<>>)
            /\ \A b \in SessionIds \ {last'.sid} :
                   HistOf(self_store', b) = HistOf(self_store, b)]_vars

\* C21 witness: get_chat_history on a session that already has four
\* recorded turns.
C21_Witness ==
    /\ last.op = "get_chat_history"
    /\ Len(Hist(last.sid)) = 4
    /\ Hist(last.sid)[1].role = "user"

\* The steps of the current solve invocation, among the first four, whose
\* model call returned.
AppendingSteps == {j \in 1..Len(step_log) : j <= 4 /\ step_log[j].boundary.kind = "ok"}

\* C22: every solve invocation starts with an empty context, and the
\* context a step is given holds one entry per earlier successful step of
\* the same invocation, made of that step's model output, and nothing that
\* an earlier invocation appended.
C22_FreshContextPerSolve ==
    /\ (pc \in {"check", "step"} /\ idx = 1) => context = <<>>
    /\ Len(context) = Cardinality(AppendingSteps)
    /\ \A j \in 1..Len(context) :
           context[j].content =
               (IF j \in {1, 3} THEN "History Agent: " ELSE "Data Agent: ")
               \o step_log[j].boundary.val

\* C22 witness: the invocation before this one left four entries in its
\* context, and the second step of this one is given a single entry.
C22_Witness ==
    /\ Len(prior_context) = 4
    /\ pc = "step"
    /\ idx = 2
    /\ Len(context) = 1
    /\ context[1].content # prior_context[1].content

\* C23: no update_long_term_memory call makes a session's long-term store
\* smaller, and a store that holds 5 pairs holds exactly 5 after every
\* later call, whether the call admits a pair or not.
C23_SteadyStateAtFive ==
    [][\A s \in SessionIds :
          /\ Len(LtmOf(long_term_memory', s)) >= Len(LtmOf(long_term_memory, s))
          /\ Len(LtmOf(long_term_memory, s)) = 5 =>
                 Len(LtmOf(long_term_memory', s)) = 5]_vars

\* C23 witness: on a session whose store was full, a sixth input was
\* admitted and then one of 20 characters was not.
C23_Witness ==
    /\ last.op = "update_long_term_memory"
    /\ Len(last.input) = 20
    /\ Len(calls[last.sid]) = 7
    /\ Len(calls[last.sid][6].input) = 21
    /\ Len(AdmittedCalls(last.sid)) = 6
    /\ Len(Ltm(last.sid)) = 5

\* C24: the timeout is tested only at the top of the loop. A step that has
\* started is left only by its own return or exception, however far the
\* clock has advanced meanwhile, and when the fifth step's model call
\* returns solve returns that text, also when the deadline has passed by
\* then.
C24_TimeoutOnlyAtBoundaries ==
    [][/\ (pc = "step" /\ pc' # "step") =>
              /\ Len(step_log') = Len(step_log) + 1
              /\ step_log'[Len(step_log')].boundary.kind = "ok" =>
                     outcome' # [kind |-> "return", val |-> TimeoutString]
              /\ (idx = 5 /\ step_log'[Len(step_log')].boundary.kind = "ok") =>
                     /\ pc' = "done"
                     /\ outcome' = [kind |-> "return",
                                    val |-> step_log'[Len(step_log')].boundary.val]
       /\ (outcome' = [kind |-> "return", val |-> TimeoutString]
           /\ outcome # outcome') => pc = "check"]_vars

\* C24 witness: the fifth step returned at a clock reading past the
\* deadline and solve returned its answer.
C24_Witness ==
    /\ pc = "done"
    /\ Len(step_log) = 5
    /\ step_log[5].boundary.kind = "ok"
    /\ end_time - start_time > timeout
    /\ outcome = [kind |-> "return", val |-> step_log[5].boundary.val]

\* C25: a step among the first four whose model call returned has appended
\* exactly one entry, of role assistant, to the context and left the
\* entries before it as they were, so that the context has k entries after
\* step k; the fifth step and a step whose model call raised leave the
\* context as it was.
C25_OneEntryPerStep ==
    [][Len(step_log') = Len(step_log) + 1 =>
          LET k == step_log'[Len(step_log')].step
              b == step_log'[Len(step_log')].boundary
          IN  IF b.kind = "ok" /\ k <= 4
              THEN /\ Len(context') = Len(context) + 1
                   /\ Len(context') = k
                   /\ SubSeq(context', 1, Len(context)) = context
                   /\ context'[k].role = "assistant"
              ELSE context' = context]_vars

\* C25 witness: all five steps ran and the context holds the four entries
\* of the first four.
C25_Witness ==
    /\ pc = "done"
    /\ Len(step_log) = 5
    /\ step_log[5].boundary.kind = "ok"
    /\ Len(context) = 4
    /\ \A j \in 1..4 : context[j].role = "assistant"

\* C26: the message list Agent.process sends is one system message, then
\* the entries of the context it was given in their order (none for no
\* context or an empty one), then the single user message "Task: <task>";
\* the context and the agent's name, role and skills are afterwards as
\* they were.
C26_ProcessMessages ==
    process_call.called =>
        LET given == IF process_call.context.given
                     THEN process_call.context.list ELSE <<>>
            msgs == process_call.messages
        IN  /\ Len(msgs) = Len(given) + 2
            /\ msgs[1].role = "system"
            /\ \A j \in 1..Len(given) : msgs[j + 1] = given[j]
            /\ msgs[Len(msgs)] =
                   [role |-> "user", content |-> "Task: " \o process_call.task]
            /\ process_call.context_after = process_call.context
            /\ process_call.agent_after.name = process_call.agent.name
            /\ process_call.agent_after.role = process_call.agent.role
            /\ process_call.agent_after.skills = process_call.agent.skills

\* C26 witness: process was called with a context of two entries.
C26_Witness ==
    /\ process_call.called
    /\ process_call.context.given
    /\ Len(process_call.context.list) = 2
    /\ Len(process_call.messages) = 4
    /\ process_call.messages[2].content = "History Agent: r1"
    /\ process_call.messages[3].content = "Data Agent: r2"

\* C27: the long-term memory text in the prompt of a chat call is the
\* rendering of the last five pairs admitted by the successful chat calls
\* made on that session before this one; the pair of the call itself is not
\* in it.
C27_MemoryRenderedBeforeStore ==
    [][last'.op = "chat" =>
          LET s == last'.sid
              earlier == Suffix(AdmittedPairs(s), 5)
          IN  last'.prompt =
                  BuildPrompt(JoinItems(". ", earlier), HistOf(chat_store, s),
                              last'.input)]_vars

\* C27 witness: a successful chat with an input of 24 characters on a
\* session that had one admitted pair: the store now holds two.
C27_Witness ==
    /\ last.op = "chat"
    /\ last.boundary.kind = "ok"
    /\ Len(last.input) = 24
    /\ Len(AdmittedCalls(last.sid)) = 2
    /\ Len(Ltm(last.sid)) = 2
    /\ Len(Hist(last.sid)) >= 4

\* C28: when every model call returns or raises, a solve invocation that
\* has started returns, and up to then it has made at most five step
\* executions, that is at most five model calls, no step twice.
C28_SolveTerminates ==
    /\ [](/\ Len(step_log) <= 5
          /\ \A j \in 1..Len(step_log) : \A k \in 1..Len(step_log) :
                 step_log[j].step = step_log[k].step => j = k)
    /\ (pc \in {"check", "step"}) ~> (pc = "done")

\* C28 witness: an invocation returned after five step executions.
C28_Witness ==
    /\ pc = "done"
    /\ outcome.kind = "return"
    /\ Len(step_log) = 5
    /\ \A j \in 1..5 : step_log[j].step = j

\* C29: the message list of a respond call holds, between the system
\* prompt and the new input, the whole history of the session, and with it
\* the learned-points turn of every reflect_and_learn that succeeded on
\* that session before.
C29_RespondSeesLearnedPoints ==
    [][last'.op = "respond" =>
          LET s == last'.sid
              msgs == sent'[1]
              learned == {j \in 1..Len(added[s]) :
                              /\ added[s][j].role = "system"
                              /\ \E r \in Responses :
                                     added[s][j].content =
                                         "[SYSTEM] Agent learned: " \o r}
          IN  /\ Len(msgs) = Len(HistOf(self_store, s)) + 2
              /\ SubSeq(msgs, 2, Len(msgs) - 1) = HistOf(self_store, s)
              /\ \A j \in learned :
                     \E k \in 2..(Len(msgs) - 1) :
                         msgs[k] = [role |-> "system",
                                    content |-> added[s][j].content]]_vars

\* C29 witness: a respond call on a session on which an exchange and then
\* a successful reflect_and_learn had been recorded.
C29_Witness ==
    /\ last.op = "respond"
    /\ last.boundary.kind = "ok"
    /\ Len(added[last.sid]) = 5
    /\ added[last.sid][3].role = "system"
    /\ Len(sent) = 1
    /\ Len(sent[1]) = 5
    /\ sent[1][4].role = "system"

\* C30: a finished solve invocation whose result is neither the timeout
\* string nor an error string has run each of the five steps exactly once,
\* in order and without an exception, and its result is the text the model
\* gave synthesize_final_answer.
C30_AnswerOnlyAfterFiveSteps ==
    (/\ pc = "done"
     /\ outcome.kind = "return"
     /\ outcome.val # "Operation timed out. The process took too long to complete."
     /\ \A e \in Errors \cup {"list index out of range"} :
            outcome.val # "Error during collaboration: " \o e)
    => /\ Len(step_log) = 5
       /\ \A k \in 1..5 :
              /\ StepCalls(k) = 1
              /\ step_log[k].step = k
              /\ step_log[k].boundary.kind = "ok"
       /\ step_log[5].func = "synthesize_final_answer"
       /\ outcome.val = step_log[5].boundary.val

\* C30 witness: an invocation that returned the synthesis step's text, a
\* text that differs from what the fourth step had been given.
C30_Witness ==
    /\ pc = "done"
    /\ outcome.kind = "return"
    /\ outcome.val \in Responses
    /\ Len(step_log) = 5
    /\ step_log[5].func = "synthesize_final_answer"
    /\ step_log[5].boundary.kind = "ok"
    /\ step_log[4].boundary.kind = "ok"
    /\ step_log[5].boundary.val # step_log[4].boundary.val
    /\ outcome.val = step_log[5].boundary.val

\* C31: whenever solve executes its second, third or fourth step, the
\* shared context holds the entries of the steps before it, so it is not
\* empty and the step's read of context[-1] does not raise IndexError.
C31_ContextNonEmptyAtMiddleSteps ==
    [][(/\ pc = "step"
        /\ idx \in {2, 3, 4}
        /\ Len(step_log') = Len(step_log) + 1)
       => /\ context # <<>>
          /\ Len(context) = idx - 1
          /\ outcome'.val # "Error during collaboration: list index out of range"]_vars

\* C31 witness: the second, third and fourth step have all executed and
\* returned, and solve stands before the fifth.
C31_Witness ==
    /\ pc = "check"
    /\ idx = 5
    /\ Len(step_log) = 4
    /\ step_log[2].func = "identify_data_needs"
    /\ step_log[3].func = "provide_historical_data"
    /\ step_log[4].func = "analyze_data"
    /\ Len(context) = 4

\* C32: in runs of chat calls, successful or failed in any order, every
\* pair of a session's long-term store is an exchange of that session's
\* history: a user turn with the pair's input, directly followed by the
\* response turn with the pair's output.
C32_PairsAreHistoryExchanges ==
    \A s \in DOMAIN long_term_memory :
        \A j \in 1..Len(long_term_memory[s]) :
            \E n \in 1..(Len(Hist(s)) \div 2) :
                /\ Hist(s)[2 * n - 1].role = "user"
                /\ Hist(s)[2 * n - 1].content = long_term_memory[s][j][1].content
                /\ Hist(s)[2 * n].role # "user"
                /\ Hist(s)[2 * n].content = long_term_memory[s][j][2].content

\* C32 witness: a session whose first exchange was too short to be
\* admitted holds two pairs in its long-term store, while the other session
\* holds an exchange but no pair.
C32_Witness ==
    /\ last.op = "chat"
    /\ last.boundary.kind = "ok"
    /\ Len(Ltm("user_123")) = 2
    /\ Len(Hist("user_123")) = 6
    /\ Len(Hist("user_456")) = 2
    /\ Ltm("user_456") = <<>>
    /\ Hist("user_123")[1].content = "Hi"

\* C33: in runs of chat calls, successful or failed in any order, every
\* session history has even length and is made of exchanges: the n-th
\* successful call's input as a user turn, directly followed by the turn
\* with that call's response; no user turn is without its response.
C33_HistoryIsExchanges ==
    \A s \in DOMAIN chat_store :
        /\ Len(chat_store[s]) % 2 = 0
        /\ Len(chat_store[s]) = 2 * Len(calls[s])
        /\ \A n \in 1..(Len(chat_store[s]) \div 2) :
               /\ chat_store[s][2 * n - 1].role = "user"
               /\ chat_store[s][2 * n - 1].content = calls[s][n].input
               /\ chat_store[s][2 * n].role # "user"
               /\ chat_store[s][2 * n].content = calls[s][n].output
        /\ \A k \in 1..Len(chat_store[s]) :
               chat_store[s][k].role = "user" =>
                   /\ k < Len(chat_store[s])
                   /\ chat_store[s][k + 1].role # "user"

\* C33 witness: a call on a session with two recorded exchanges has just
\* failed, and a call on a session without history had failed as well,
\* leaving that session's key with an empty list.
C33_Witness ==
    /\ last.op = "chat"
    /\ last.boundary.kind = "raise"
    /\ last.outcome.kind = "raise"
    /\ Len(Hist(last.sid)) = 4
    /\ \E s \in DOMAIN chat_store : chat_store[s] = <<>>

\* C34: a reflect_and_learn call on session s whose two model calls both
\* return appends to the history of s exactly one turn, of role system,
\* holding the learned points, and returns them; a call in which reflect
\* or learn raises appends nothing and passes the exception on to its
\* caller. No other session's history changes.
C34_ReflectAndLearnAppendsOnSuccess ==
    [][last'.op = "reflect_and_learn" =>
          LET s == last'.sid
          IN  /\ IF last'.boundary.kind = "ok"
                 THEN /\ Len(sent') = 2
                      /\ last'.outcome = [kind |-> "return", val |-> last'.boundary.val]
                      /\ HistOf(self_store', s) =
                             Append(HistOf(self_store, s),
                                    [role |-> "system",
                                     content |-> "[SYSTEM] Agent learned: "
                                                     \o last'.boundary.val])
                 ELSE /\ Len(sent') \in {1, 2}
                      /\ last'.outcome = [kind |-> "raise", val |-> last'.boundary.val]
                      /\ HistOf(self_store', s) = HistOf(self_store, s)
              /\ \A o \in SessionIds \ {s} :
                     HistOf(self_store', o) = HistOf(self_store, o)]_vars

\* C34 witness: on a session with a recorded exchange, reflect returned
\* and learn raised, so both model calls were made and the history still
\* holds the exchange alone.
C34_Witness ==
    /\ last.op = "reflect_and_learn"
    /\ last.outcome.kind = "raise"
    /\ Len(sent) = 2
    /\ Len(HistOf(self_store, last.sid)) = 2
    /\ HistOf(self_store, last.sid)[2].role = "assistant"

\* C35: a timeout test of solve returns the timeout string exactly when
\* the elapsed time is strictly greater than timeout; a test made when the
\* elapsed time equals timeout goes on to execute the step.
C35_TimeoutIsStrict ==
    [][(pc = "check" /\ pc' # "check") =>
          /\ (now - start_time = timeout) => (pc' = "step" /\ outcome' = outcome)
          /\ (now - start_time < timeout) => (pc' = "step" /\ outcome' = outcome)
          /\ (now - start_time > timeout) =>
                 /\ pc' = "done"
                 /\ outcome' = [kind |-> "return",
                                val |-> "Operation timed out. The process took too long to complete."]
                 /\ step_log' = step_log]_vars

\* C35 witness: with a timeout of 0 and a clock that has not moved since
\* solve read start_time, the first step has returned, the test before the
\* second step found the elapsed time equal to the timeout, and the second
\* step is being executed.
C35_Witness ==
    /\ timeout = 0
    /\ now = start_time
    /\ pc = "step"
    /\ idx = 2
    /\ Len(step_log) = 1
    /\ step_log[1].boundary.kind = "ok"
    /\ outcome.kind = "none"

\* The pairs items[j..] as Python prints them, joined by ". ".
RECURSIVE PairsTextFrom(_, _)
PairsTextFrom(items, j) ==
    IF j > Len(items) THEN ""
    ELSE "[{'role': '" \o items[j][1].role \o "', 'content': '" \o items[j][1].content
         \o "'}, {'role': '" \o items[j][2].role \o "', 'content': '"
         \o items[j][2].content \o "'}]"
         \o (IF j < Len(items) THEN ". " ELSE "")
         \o PairsTextFrom(items, j + 1)

\* C36: get_long_term_memory(s) changes neither the long-term store nor
\* the histories, and creates no key in either; for a session without
\* long-term pairs it returns the empty text, otherwise the text of all the
\* session's retained pairs in store order, joined by ". ".
C36_GetLongTermMemoryFrame ==
    [][last'.op = "get_long_term_memory" =>
          LET s == last'.sid
          IN  /\ long_term_memory' = long_term_memory
              /\ chat_store' = chat_store
              /\ DOMAIN long_term_memory' = DOMAIN long_term_memory
              /\ DOMAIN chat_store' = DOMAIN chat_store
              /\ last'.outcome.kind = "return"
              /\ Ltm(s) = <<>> => last'.outcome.val = ""
              /\ Ltm(s) # <<>> => last'.outcome.val = PairsTextFrom(Ltm(s), 1)]_vars

\* C36 witness: get_long_term_memory was called on a session neither dict
\* has a key for, returned the empty text and left the session without a
\* key, while the other session's long-term store is full.
C36_Witness ==
    /\ last.op = "get_long_term_memory"
    /\ last.sid = "user_456"
    /\ last.outcome.val = ""
    /\ "user_456" \notin DOMAIN long_term_memory
    /\ "user_456" \notin DOMAIN chat_store
    /\ Len(Ltm("user_123")) = 5

====
